---- MODULE Spec2Model ----
(***************************************************************************)
(* Model of src/main.py: a document registry loaded once from              *)
(* documents.csv, three in-memory indexes built from it, two GET handlers  *)
(* and one PATCH handler that moves a document between status buckets.     *)
(*                                                                         *)
(* Values.  csv.DictReader yields every field as a Python str, so a loaded *)
(* row carries id '1', not 1.  The PATCH handler receives id as an int.    *)
(* Python's 1 and '1' are different dictionary keys, so ids are modelled   *)
(* as tagged values <<"str", n>> and <<"int", n>>.  Dictionaries are       *)
(* functions with a finite domain, lists are sequences.  No handler ever   *)
(* assigns into a row dictionary, so rows are modelled as values: object   *)
(* identity cannot be observed by any operation of the program.            *)
(***************************************************************************)
EXTENDS Integers, Sequences, FiniteSets, TLC

\* Bounds of the model: rows in documents.csv, the id numbers used in the
\* file, and rows in the file when two worker threads run step by step.
MaxDocs == 3
MaxId == 3
MaxConcDocs == 2

\* DocumentStatus (line 11)
DocumentStatus == {"SUCCEEDED", "NEEDS_REVIEW"}

Paths == {"a.pdf", "b.pdf"}

\* An id as the csv reader delivers it (a str) and as FastAPI parses the
\* path parameter or pydantic coerces the field (an int).
StrId(n) == <<"str", n>>
IntId(n) == <<"int", n>>

\* int('<n>'): pydantic's coercion of the field id: int of Document.
ToInt(id) == IntId(id[2])

\* One row of documents.csv as csv.DictReader yields it (lines 45-49).
CsvRows == [id : {StrId(n) : n \in 1..MaxId}, pdf_path : Paths, status : DocumentStatus]

\* All files of at most MaxDocs rows.
RECURSIVE SeqsUpTo(_, _)
SeqsUpTo(S, n) ==
  IF n = 0 THEN {<<>>}
  ELSE LET shorter == SeqsUpTo(S, n - 1)
       IN shorter \cup {Append(s, x) : s \in {t \in shorter : Len(t) = n - 1}, x \in S}

\* Ids are numbered in order of first appearance in the file: any file is
\* such a file up to a renaming of its ids, which no handler can tell apart.
FirstAppearanceOrder(f) ==
  \A i \in 1..Len(f) :
    \/ f[i]["id"][2] = 1
    \/ \E j \in 1..(i - 1) : f[j]["id"][2] >= f[i]["id"][2] - 1

UniqueIdFile(f) == \A i, j \in 1..Len(f) : i # j => f[i]["id"] # f[j]["id"]

CsvFiles == {f \in SeqsUpTo(CsvRows, MaxDocs) : FirstAppearanceOrder(f)}

\* The files of the step-by-step specification: ids are unique.
ConcCsvFiles ==
  {f \in SeqsUpTo(CsvRows, MaxConcDocs) : FirstAppearanceOrder(f) /\ UniqueIdFile(f)}

VARIABLES
  documents,              \* list of rows, file order (line 43)
  documents_by_id,        \* dict id -> row (line 55)
  documents_by_status,    \* defaultdict(list) status -> rows (line 57)
  documents_by_pdf_path,  \* defaultdict(list) path -> rows (line 59)
  duplicates,             \* dict path -> rows (line 67)
  request,                \* the request the dispatcher handled last
  response,               \* what that request got back
  pc,                     \* per worker thread: where it is in its handler
  frame                   \* per worker thread: the handler's arguments and locals

vars == <<documents, documents_by_id, documents_by_status, documents_by_pdf_path,
          duplicates, request, response, pc, frame>>

indexes == <<documents, documents_by_id, documents_by_status, documents_by_pdf_path,
             duplicates>>

-----------------------------------------------------------------------------
(* Python containers *)

EmptyDict == <<>>

\* d[k] = v on a dict
DictSet(d, k, v) == [x \in DOMAIN d \cup {k} |-> IF x = k THEN v ELSE d[x]]

\* dd[k] on a defaultdict(list): a missing key is inserted with [].
DefaultGet(dd, k) == IF k \in DOMAIN dd THEN dd ELSE DictSet(dd, k, <<>>)

\* dd[k].append(v) on a defaultdict(list)
DefaultAppend(dd, k, v) ==
  LET d1 == DefaultGet(dd, k) IN [d1 EXCEPT ![k] = Append(@, v)]

\* index of the first element of l equal to v, 0 if there is none
FirstIndex(l, v) ==
  IF \E i \in 1..Len(l) : l[i] = v
  THEN CHOOSE i \in 1..Len(l) : l[i] = v /\ \A j \in 1..(i - 1) : l[j] # v
  ELSE 0

\* l.remove(v) for v in l: the first element equal to v is dropped.
ListRemove(l, v) ==
  LET i == FirstIndex(l, v)
  IN [j \in 1..(Len(l) - 1) |-> IF j < i THEN l[j] ELSE l[j + 1]]

-----------------------------------------------------------------------------
(* Index construction, lines 55-70 *)

\* documents_by_id = {doc['id']: doc for doc in documents}
RECURSIVE BuildById(_)
BuildById(docs) ==
  IF docs = <<>> THEN EmptyDict
  ELSE LET n == Len(docs)
       IN DictSet(BuildById(SubSeq(docs, 1, n - 1)), docs[n]["id"], docs[n])

\* A slip in the loop below: insert(0, doc) in place of append(doc).
RECURSIVE BuildByStatusPrepend(_)
BuildByStatusPrepend(docs) ==
  IF docs = <<>> THEN EmptyDict
  ELSE LET n == Len(docs)
           d1 == DefaultGet(BuildByStatusPrepend(SubSeq(docs, 1, n - 1)), docs[n]["status"])
       IN [d1 EXCEPT ![docs[n]["status"]] = <<docs[n]>> \o @]

\* for doc in documents: documents_by_status[doc["status"]].append(doc)
RECURSIVE BuildByStatus(_)
BuildByStatus(docs) ==
  IF docs = <<>> THEN EmptyDict
  ELSE LET n == Len(docs)
       IN DefaultAppend(BuildByStatus(SubSeq(docs, 1, n - 1)), docs[n]["status"], docs[n])

\* for doc in documents: documents_by_pdf_path[doc["pdf_path"]].append(doc)
RECURSIVE BuildByPdfPath(_)
BuildByPdfPath(docs) ==
  IF docs = <<>> THEN EmptyDict
  ELSE LET n == Len(docs)
       IN DefaultAppend(BuildByPdfPath(SubSeq(docs, 1, n - 1)), docs[n]["pdf_path"], docs[n])

\* A slip in the comprehension below: len(docs) >= 1.
BuildDuplicatesNonEmpty(by_path) ==
  [p \in {q \in DOMAIN by_path : Len(by_path[q]) >= 1} |-> by_path[p]]

\* {path: docs for path, docs in documents_by_pdf_path.items() if len(docs) > 1}
BuildDuplicates(by_path) ==
  [p \in {q \in DOMAIN by_path : Len(by_path[q]) > 1} |-> by_path[p]]

-----------------------------------------------------------------------------
(* Requests and responses *)

\* DocumentUpdate (lines 37-38): status is one of the two values or was not
\* sent.  An explicit JSON null is not among the modelled request bodies.
Unset == "UNSET"
DocumentUpdate == DocumentStatus \cup {Unset}

\* The ids a PATCH can name: FastAPI parses the path segment as an int.
\* MaxId + 1 is an id no file holds.
RequestIds == {IntId(n) : n \in 1..(MaxId + 1)}

\* Python's None
None == <<>>
IsNone(v) == DOMAIN v = {}

NoRequest == [op |-> "none", id |-> None, status |-> Unset]
IdleFrame == [op |-> "none", id |-> None, status |-> Unset,
              old_record |-> None, new_record |-> None, result |-> None]
NoResponse == [kind |-> "none", body |-> None]

\* The Document a response model builds from a row: id is coerced to int
\* (lines 14-17, 20-32).
AsDocument(row) ==
  [id |-> ToInt(row["id"]), pdf_path |-> row["pdf_path"], status |-> row["status"]]

AsDocuments(rows) == [i \in 1..Len(rows) |-> AsDocument(rows[i])]

-----------------------------------------------------------------------------
(* update_document, lines 134-151, statement by statement *)

\* A variant of line 136 that looks the id up as the str the file holds.
LookupKeyStr(id) == StrId(id[2])

\* A slip in line 136: the row after the one asked for is looked up, under
\* the str key the file holds.
LookupKeyOffByOne(id) == StrId(id[2] + 1)

\* The key of documents_by_id[id]: the int the handler was given (line 136).
LookupKey(id) == id

\* documents_by_id[id] raises KeyError for a key the dict does not hold.
RaisesKeyError(by_id, id) == LookupKey(id) \notin DOMAIN by_id

\* old_record = documents_by_id[id]
OldRecord(by_id, id) == by_id[LookupKey(id)]

\* changes = document.model_dump(exclude_unset=True)
\* updated_document = Document(**old_record).model_copy(update=changes)
UpdatedDocument(old_record, status) ==
  LET doc == AsDocument(old_record)
  IN IF status = Unset THEN doc ELSE [doc EXCEPT !["status"] = status]

\* new_record = updated_document.model_dump()
NewRecord(updated_document) == updated_document

\* list.remove raises ValueError when the value is not in the list.
RaisesValueError(by_status, old_record) ==
  FirstIndex(DefaultGet(by_status, old_record["status"])[old_record["status"]], old_record) = 0

\* documents_by_status[old_record["status"]].remove(old_record), when it
\* does not raise (line 147)
RemoveOld(by_status, old_record) ==
  LET d1 == DefaultGet(by_status, old_record["status"])
  IN [d1 EXCEPT ![old_record["status"]] = ListRemove(@, old_record)]

\* documents_by_status[new_record["status"]].append(new_record) (line 148)
AppendNew(by_status, new_record) ==
  DefaultAppend(by_status, new_record["status"], new_record)

\* documents_by_id[new_record["id"]] = new_record (line 149)
StoreNew(by_id, new_record) == DictSet(by_id, new_record["id"], new_record)

\* The handler run from its first statement to its return or its raise:
\* the indexes it leaves and the response the client gets.
UpdateOutcome(by_id, by_status, id, status) ==
  IF RaisesKeyError(by_id, id)
  THEN [by_id |-> by_id, by_status |-> by_status,
        response |-> [kind |-> "KeyError", body |-> None]]
  ELSE LET old_record == OldRecord(by_id, id)
       IN IF IsNone(old_record)
          THEN [by_id |-> by_id, by_status |-> by_status,
                response |-> [kind |-> "NotFound", body |-> None]]
          ELSE LET updated_document == UpdatedDocument(old_record, status)
                   new_record == NewRecord(updated_document)
               IN IF RaisesValueError(by_status, old_record)
                  THEN [by_id |-> by_id,
                        by_status |-> DefaultGet(by_status, old_record["status"]),
                        response |-> [kind |-> "ValueError", body |-> None]]
                  ELSE [by_id |-> StoreNew(by_id, new_record),
                        by_status |-> AppendNew(RemoveOld(by_status, old_record), new_record),
                        response |-> [kind |-> "document", body |-> updated_document]]

-----------------------------------------------------------------------------
(* The service under single-threaded dispatch: each handler runs whole. *)

Threads == {"t1", "t2"}

Init ==
  /\ documents \in CsvFiles
  /\ documents_by_id = BuildById(documents)
  /\ documents_by_status = BuildByStatus(documents)
  /\ documents_by_pdf_path = BuildByPdfPath(documents)
  /\ duplicates = BuildDuplicates(documents_by_pdf_path)
  /\ request = NoRequest
  /\ response = NoResponse
  /\ pc = [t \in Threads |-> "idle"]
  /\ frame = [t \in Threads |-> IdleFrame]

\* A slip in line 136: the lookup goes to the by-path index with str(id),
\* and that defaultdict inserts an empty list under the key; Document(**[])
\* then raises.
update_documentWrongIndex(id, status) ==
  /\ documents_by_pdf_path' = DefaultGet(documents_by_pdf_path, ToString(id[2]))
  /\ request' = [op |-> "PATCH", id |-> id, status |-> status]
  /\ response' = [kind |-> "TypeError", body |-> None]
  /\ UNCHANGED <<documents, documents_by_id, documents_by_status, duplicates, pc, frame>>

\* PATCH /documents/{id} (lines 134-151)
update_document(id, status) ==
  LET out == UpdateOutcome(documents_by_id, documents_by_status, id, status)
  IN /\ documents_by_id' = out.by_id
     /\ documents_by_status' = out.by_status
     /\ request' = [op |-> "PATCH", id |-> id, status |-> status]
     /\ response' = out.response
     /\ UNCHANGED <<documents, documents_by_pdf_path, duplicates, pc, frame>>

\* A variant of line 125 that takes the bucket out of the index:
\* documents_by_status.pop(status, []).
get_documentsPop(status) ==
  /\ documents_by_status' =
       [s \in DOMAIN documents_by_status \ {status} |-> documents_by_status[s]]
  /\ request' = [op |-> "GET status", id |-> None, status |-> status]
  /\ response' = [kind |-> "documents",
                  body |-> AsDocuments(DefaultGet(documents_by_status, status)[status])]
  /\ UNCHANGED <<documents, documents_by_id, documents_by_pdf_path, duplicates, pc, frame>>

\* GET /documents/status/{status} (lines 120-125)
get_documents(status) ==
  /\ documents_by_status' = DefaultGet(documents_by_status, status)
  /\ request' = [op |-> "GET status", id |-> None, status |-> status]
  /\ response' = [kind |-> "documents",
                  body |-> AsDocuments(documents_by_status'[status])]
  /\ UNCHANGED <<documents, documents_by_id, documents_by_pdf_path, duplicates, pc, frame>>

\* GET /documents/duplicates (lines 128-131)
get_duplicate_documents ==
  /\ request' = [op |-> "GET duplicates", id |-> None, status |-> Unset]
  /\ response' = [kind |-> "grouped",
                  body |-> [p \in DOMAIN duplicates |-> AsDocuments(duplicates[p])]]
  /\ UNCHANGED <<indexes, pc, frame>>

Next ==
  \/ \E id \in RequestIds, status \in DocumentUpdate : update_document(id, status)
  \/ \E status \in DocumentStatus : get_documents(status)
  \/ get_duplicate_documents

Spec == Init /\ [][Next]_vars

-----------------------------------------------------------------------------
(* The service as uvicorn and FastAPI run it: the handlers are plain def   *)
(* functions, so each request runs on a worker thread of the thread pool   *)
(* and the interpreter may switch threads between two statements.  The     *)
(* code takes no lock.  A statement that reads or writes an index is one   *)
(* step; the statements on locals (lines 138-144) belong to the step of    *)
(* line 136.                                                               *)

InitConc ==
  /\ documents \in ConcCsvFiles
  /\ documents_by_id = BuildById(documents)
  /\ documents_by_status = BuildByStatus(documents)
  /\ documents_by_pdf_path = BuildByPdfPath(documents)
  /\ duplicates = BuildDuplicates(documents_by_pdf_path)
  /\ request = NoRequest
  /\ response = NoResponse
  /\ pc = [t \in Threads |-> "idle"]
  /\ frame = [t \in Threads |-> IdleFrame]

\* A PATCH request is dispatched to an idle worker.
CallUpdate(t, id, status) ==
  /\ pc[t] = "idle"
  /\ pc' = [pc EXCEPT ![t] = "L136"]
  /\ frame' = [frame EXCEPT ![t] = [IdleFrame EXCEPT !.op = "PATCH", !.id = id,
                                                     !.status = status]]
  /\ UNCHANGED <<indexes, request, response>>

\* What one statement of update_document on worker t makes of the indexes
\* it touches and of the workers' positions and locals.  c holds by_id,
\* by_status, pc and frame.
Returned(c, t, result) ==
  [c EXCEPT !.pc[t] = "idle", !.frame[t].result = result]

UpdateStep(c, t) ==
  CASE c.pc[t] = "L136" ->
         IF RaisesKeyError(c.by_id, c.frame[t].id)
         THEN Returned(c, t, [kind |-> "KeyError", body |-> None])
         ELSE LET old_record == OldRecord(c.by_id, c.frame[t].id)
              IN IF IsNone(old_record)
                 THEN Returned(c, t, [kind |-> "NotFound", body |-> None])
                 ELSE [c EXCEPT
                         !.pc[t] = "L147",
                         !.frame[t].old_record = old_record,
                         !.frame[t].new_record =
                            NewRecord(UpdatedDocument(old_record, c.frame[t].status))]
    [] c.pc[t] = "L147" ->
         IF RaisesValueError(c.by_status, c.frame[t].old_record)
         THEN [Returned(c, t, [kind |-> "ValueError", body |-> None]) EXCEPT
                 !.by_status = DefaultGet(c.by_status, c.frame[t].old_record["status"])]
         ELSE [c EXCEPT !.by_status = RemoveOld(c.by_status, c.frame[t].old_record),
                        !.pc[t] = "L148"]
    [] c.pc[t] = "L148" ->
         [c EXCEPT !.by_status = AppendNew(c.by_status, c.frame[t].new_record),
                   !.pc[t] = "L149"]
    [] c.pc[t] = "L149" ->
         [Returned(c, t, [kind |-> "document", body |-> c.frame[t].new_record]) EXCEPT
            !.by_id = StoreNew(c.by_id, c.frame[t].new_record)]
    [] OTHER -> c

\* The next statement of update_document on worker t.
StepUpdate(t) ==
  /\ pc[t] # "idle"
  /\ LET c == UpdateStep([by_id |-> documents_by_id, by_status |-> documents_by_status,
                          pc |-> pc, frame |-> frame], t)
     IN /\ documents_by_id' = c.by_id
        /\ documents_by_status' = c.by_status
        /\ pc' = c.pc
        /\ frame' = c.frame
  /\ UNCHANGED <<documents, documents_by_pdf_path, duplicates, request, response>>

\* get_documents on an idle worker: its one statement reads the bucket.
ReadStatus(t, status) ==
  /\ pc[t] = "idle"
  /\ documents_by_status' = DefaultGet(documents_by_status, status)
  /\ frame' = [frame EXCEPT ![t] =
        [IdleFrame EXCEPT !.op = "GET status", !.status = status,
                          !.result = [kind |-> "documents",
                                      body |-> AsDocuments(documents_by_status'[status])]]]
  /\ UNCHANGED <<documents, documents_by_id, documents_by_pdf_path, duplicates,
                 request, response, pc>>

NextConc ==
  \/ \E t \in Threads, id \in RequestIds, status \in DocumentUpdate : CallUpdate(t, id, status)
  \/ \E t \in Threads : StepUpdate(t)
  \/ \E t \in Threads, status \in DocumentStatus : ReadStatus(t, status)

SpecConc == InitConc /\ [][NextConc]_vars

-----------------------------------------------------------------------------
(* Vocabulary of the properties *)

\* The ids of the file are pairwise different.
UniqueIds == UniqueIdFile(documents)

\* Some row of the file has this integer id.
Existing(id) == \E i \in 1..Len(documents) : ToInt(documents[i]["id"]) = id

\* How often the document with this integer id occurs in a list of rows.
CountIn(rows, id) == Cardinality({j \in 1..Len(rows) : ToInt(rows[j]["id"]) = id})

\* The same, in the bucket of status s of a by-status index (0 when there
\* is no such bucket).
CountInBucket(by_status, s, id) ==
  IF s \in DOMAIN by_status THEN CountIn(by_status[s], id) ELSE 0

\* The buckets of a by-status index that hold the document.
BucketsOf(by_status, id) == {s \in DOMAIN by_status : CountIn(by_status[s], id) > 0}

\* The entry of by_id for a row of the file, under the key the file gives.
ByIdEntry(row) == documents_by_id[row["id"]]

\* The status the document with this integer id has now, by by_id.
CurrentStatus(id) ==
  LET i == CHOOSE k \in 1..Len(documents) : ToInt(documents[k]["id"]) = id
  IN ByIdEntry(documents[i])["status"]

\* Position of the document in a list of rows, 0 when absent.
PositionIn(rows, id) ==
  IF CountIn(rows, id) = 0 THEN 0
  ELSE CHOOSE j \in 1..Len(rows) : ToInt(rows[j]["id"]) = id

\* The list documents_by_status[s] yields: [] when there is no bucket.
Bucket(by_status, s) == IF s \in DOMAIN by_status THEN by_status[s] ELSE <<>>

-----------------------------------------------------------------------------
(* Properties *)

\* C1: from a load with unique ids, after any sequence of PATCH calls run
\* one at a time, every loaded document is in exactly one by_status bucket,
\* exactly once, and that bucket is the one named by the status of its
\* by_id entry.
C1_OneBucketMatchingById ==
  UniqueIds =>
    \A i \in 1..Len(documents) :
      LET id == ToInt(documents[i]["id"])
      IN /\ BucketsOf(documents_by_status, id) = {ByIdEntry(documents[i])["status"]}
         /\ CountIn(documents_by_status[ByIdEntry(documents[i])["status"]], id) = 1

\* C1 witness: two documents share a bucket and a PATCH naming one of them
\* with the other status has been handled.
C1_Witness ==
  /\ UniqueIds
  /\ request.op = "PATCH"
  /\ Existing(request.id)
  /\ request.status \in DocumentStatus
  /\ request.status # CurrentStatus(request.id)
  /\ Len(documents_by_status[CurrentStatus(request.id)]) >= 2

\* C2: a PATCH of an existing id with a status S other than the current one
\* leaves the document out of its old bucket, exactly once in the bucket of
\* S, and by_id[id].status = S.
C2_MoveCorrect ==
  [][\A id \in RequestIds, S \in DocumentStatus :
       (/\ update_document(id, S)
        /\ UniqueIds
        /\ Existing(id)
        /\ CurrentStatus(id) # S)
       => (/\ CountInBucket(documents_by_status', CurrentStatus(id), id) = 0
           /\ CountInBucket(documents_by_status', S, id) = 1
           /\ id \in DOMAIN documents_by_id'
           /\ documents_by_id'[id]["status"] = S)]_vars

\* C3: a PATCH naming the integer id of a loaded document finds it in by_id
\* and answers success with that document; it answers neither NotFound nor
\* a fault.
C3_LoadedIdIsFound ==
  (request.op = "PATCH" /\ Existing(request.id))
    => (/\ response.kind = "document"
        /\ response.body["id"] = request.id)

\* C4: a PATCH naming an id that by_id does not hold answers NotFound (404),
\* not an unhandled fault, and leaves every index as it was.
C4_UnknownIdIsNotFound ==
  [][\A id \in RequestIds, S \in DocumentUpdate :
       (update_document(id, S) /\ ~Existing(id))
       => (response'.kind = "NotFound" /\ UNCHANGED indexes)]_vars

\* C5: a PATCH of an existing id that sends no status answers with the
\* current document unchanged and leaves every by_status bucket with the
\* same members in the same order.
C5_NoStatusIsNoOp ==
  [][\A id \in RequestIds :
       (update_document(id, Unset) /\ UniqueIds /\ Existing(id))
       => (/\ response'.kind = "document"
           /\ response'.body = [id |-> id,
                                 pdf_path |-> documents[PositionIn(documents, id)]["pdf_path"],
                                 status |-> CurrentStatus(id)]
           /\ documents_by_status' = documents_by_status)]_vars

\* C6: a PATCH of an existing id with the status the document already has
\* leaves the members and the order of every by_status bucket as they were,
\* wherever the document stands in its bucket.
C6_SameStatusKeepsBuckets ==
  [][\A id \in RequestIds, S \in DocumentStatus :
       (update_document(id, S) /\ UniqueIds /\ Existing(id) /\ CurrentStatus(id) = S)
       => documents_by_status' = documents_by_status]_vars

\* C6 witness: such a PATCH has been handled for a document that is first
\* in a bucket of at least two.
C6_Witness ==
  /\ UniqueIds
  /\ request.op = "PATCH"
  /\ Existing(request.id)
  /\ request.status = CurrentStatus(request.id)
  /\ Len(documents_by_status[request.status]) >= 2
  /\ PositionIn(documents_by_status[request.status], request.id) = 1

C8_MoveAtomicForReaders ==
  \A t \in Threads :
    (pc[t] # "idle" /\ Existing(frame[t].id))
      => Cardinality(BucketsOf(documents_by_status, frame[t].id)) = 1
         /\ \A s \in DOMAIN documents_by_status :
              CountIn(documents_by_status[s], frame[t].id) <= 1

\* C8 witness: a PATCH of a loaded document with another status is under
\* way on one worker while the other has read that document's bucket.
C8_Witness ==
  \E t, r \in Threads :
    /\ t # r
    /\ pc[t] # "idle"
    /\ Existing(frame[t].id)
    /\ frame[t].status \in DocumentStatus
    /\ frame[t].status # CurrentStatus(frame[t].id)
    /\ frame[r].op = "GET status"
    /\ frame[r].status = CurrentStatus(frame[t].id)
    /\ frame[r].result.kind = "documents"

\* C9: after a PATCH of an existing id with a status S other than the
\* current one, the document is the last element of by_status[S].
C9_MovedIsAppendedLast ==
  [][\A id \in RequestIds, S \in DocumentStatus :
       (update_document(id, S) /\ UniqueIds /\ Existing(id) /\ CurrentStatus(id) # S)
       => (/\ S \in DOMAIN documents_by_status'
           /\ Len(documents_by_status'[S]) >= 1
           /\ ToInt(documents_by_status'[S][Len(documents_by_status'[S])]["id"]) = id)]_vars

\* C10: in every state, for every path p, the duplicates dictionary and
\* the response of get_duplicate_documents hold p exactly when by_path[p]
\* has more than one document, and what they give for p is by_path[p].
C10_DuplicatesMatchByPath ==
  \A p \in Paths :
    LET many == p \in DOMAIN documents_by_pdf_path /\ Len(documents_by_pdf_path[p]) > 1
    IN /\ p \in DOMAIN duplicates <=> many
       /\ p \in DOMAIN duplicates => duplicates[p] = documents_by_pdf_path[p]
       /\ response.kind = "grouped" =>
            /\ p \in DOMAIN response.body <=> many
            /\ p \in DOMAIN response.body
                 => response.body[p] = AsDocuments(documents_by_pdf_path[p])

\* C10 witness: the duplicates view has been served when one path has two
\* documents and another path has one.
C10_Witness ==
  /\ response.kind = "grouped"
  /\ \E p, q \in DOMAIN documents_by_pdf_path :
       Len(documents_by_pdf_path[p]) > 1 /\ Len(documents_by_pdf_path[q]) = 1

\* C11: the load fails fast on two rows with the same id, so no request is
\* ever served while two loaded documents share an id.
C11_NoServingWithSharedId ==
  request.op # "none" => UniqueIds

\* C12: the set of documents is fixed after load: whatever requests have
\* been handled, by_id has exactly one entry per loaded id and the by_status
\* buckets together hold as many entries as the file has rows.
C12_DocumentSetFixed ==
  /\ DOMAIN documents_by_id = {documents[i]["id"] : i \in 1..Len(documents)}
  /\ \A k \in DOMAIN documents_by_id :
       \E i \in 1..Len(documents) : documents[i] = documents_by_id[k]
  /\ \A s \in DOMAIN documents_by_status : Len(documents_by_status[s]) <= Len(documents)
  /\ Cardinality({e \in (DOMAIN documents_by_status) \X (1..Len(documents)) :
                    e[2] <= Len(documents_by_status[e[1]])})
       = Len(documents)

\* C12 witness: a PATCH with another status has been handled for one of at
\* least two loaded documents.
C12_Witness ==
  /\ request.op = "PATCH"
  /\ Existing(request.id)
  /\ request.status \in DocumentStatus
  /\ request.status # CurrentStatus(request.id)
  /\ Len(documents) >= 2

\* C13: queries are pure reads.  get_documents answers with the current
\* contents of the bucket, an empty list when no document has the status,
\* and neither query changes what a later get_documents, duplicates query
\* or PATCH finds: every bucket reads the same, by_id, by_path and
\* duplicates are untouched, and every PATCH gets the answer it would have
\* got before.
C13_QueriesArePureReads ==
  [][LET Untouched ==
           /\ \A s \in DocumentStatus :
                Bucket(documents_by_status', s) = Bucket(documents_by_status, s)
           /\ UNCHANGED <<documents, documents_by_id, documents_by_pdf_path, duplicates>>
           /\ \A id \in RequestIds, st \in DocumentUpdate :
                UpdateOutcome(documents_by_id', documents_by_status', id, st).response
                  = UpdateOutcome(documents_by_id, documents_by_status, id, st).response
     IN /\ \A s \in DocumentStatus :
             get_documents(s) =>
               /\ response'.kind = "documents"
               /\ response'.body = AsDocuments(Bucket(documents_by_status, s))
               /\ Untouched
        /\ get_duplicate_documents => Untouched]_vars

\* C13 witness: get_documents has answered with an empty list for a status
\* that no document of a non-empty file has.
C13_Witness ==
  /\ request.op = "GET status"
  /\ response.kind = "documents"
  /\ response.body = <<>>
  /\ Len(documents) >= 1
  /\ \A i \in 1..Len(documents) : documents[i]["status"] # request.status

\* The load of the scenario: doc1(a.pdf, NEEDS_REVIEW), doc2(a.pdf,
\* SUCCEEDED), doc3(b.pdf, SUCCEEDED), and its documents as responses
\* carry them.
ScenarioFile ==
  << [id |-> StrId(1), pdf_path |-> "a.pdf", status |-> "NEEDS_REVIEW"],
     [id |-> StrId(2), pdf_path |-> "a.pdf", status |-> "SUCCEEDED"],
     [id |-> StrId(3), pdf_path |-> "b.pdf", status |-> "SUCCEEDED"] >>

ScenarioDoc(i) == AsDocument(ScenarioFile[i])

\* C14: right after load every by_status bucket and every by_path bucket
\* lists its documents in file order; for the scenario's load the
\* duplicates query answers {a.pdf: [doc1, doc2]} and get_documents of
\* SUCCEEDED answers [doc2, doc3].
C14_LoadKeepsFileOrder ==
  [][request.op = "none" =>
       /\ \A s \in DocumentStatus :
            LET HasStatus(row) == row["status"] = s
            IN Bucket(documents_by_status, s) = SelectSeq(documents, HasStatus)
       /\ \A p \in Paths :
            LET HasPath(row) == row["pdf_path"] = p
            IN Bucket(documents_by_pdf_path, p) = SelectSeq(documents, HasPath)
       /\ (documents = ScenarioFile /\ get_duplicate_documents)
            => response'.body = [p \in {"a.pdf"} |-> <<ScenarioDoc(1), ScenarioDoc(2)>>]
       /\ (documents = ScenarioFile /\ get_documents("SUCCEEDED"))
            => response'.body = <<ScenarioDoc(2), ScenarioDoc(3)>>]_vars

\* C14 witness: the scenario's file is loaded and get_documents of
\* SUCCEEDED has answered with two documents.
C14_Witness ==
  /\ documents = ScenarioFile
  /\ request.op = "GET status"
  /\ request.status = "SUCCEEDED"
  /\ Len(response.body) = 2

\* The indexes and workers after the workers named by a schedule have each
\* run their next statement, in the schedule's order (a worker that has
\* returned does nothing).
RECURSIVE RunSchedule(_, _)
RunSchedule(c, schedule) ==
  IF schedule = <<>> THEN c
  ELSE RunSchedule(UpdateStep(c, Head(schedule)), Tail(schedule))

\* Two calls of four statements each: every order of their eight steps, and
\* the orders in which one call ends before the other starts.
Schedules == {sch \in SeqsUpTo(Threads, 8) : Len(sch) = 8}
SequentialSchedules ==
  {sch \in Schedules : \A i \in 1..7 : (sch[i] # sch[i + 1]) => i = 4}

\* The by_id entry of the document: the one a PATCH stored under the int
\* id if there is one, else the one the load stored.
EntryFor(by_id, id) == IF id \in DOMAIN by_id THEN by_id[id] ELSE by_id[StrId(id[2])]

\* The document is in exactly one bucket, once, and by_id names that bucket.
InItsBucket(by_id, by_status, id) ==
  /\ BucketsOf(by_status, id) = {EntryFor(by_id, id)["status"]}
  /\ CountInBucket(by_status, EntryFor(by_id, id)["status"], id) = 1

\* An update faulted on the removal, or all have returned and the document
\* is not in exactly one bucket, the one by_id names.
RaceOutcome(c, id) ==
  \/ \E t \in Threads :
       DOMAIN c.frame[t].result # {} /\ c.frame[t].result.kind = "ValueError"
  \/ /\ \A t \in Threads : c.pc[t] = "idle"
     /\ ~InItsBucket(c.by_id, c.by_status, id)

\* C15: without a lock the update is a race.  Once two PATCH calls of the
\* same existing id have been dispatched, the document being in its one
\* bucket, some order of their statements
\* (read by_id, remove, append, store) ends with a fault on the removal or
\* with the document not in exactly one bucket matching by_id; the orders
\* that run one call to its end before the other starts do not.
C15_InterleavingRaces ==
  \A t, u \in Threads :
    (/\ t # u
     /\ pc[t] = "L136"
     /\ pc[u] = "L136"
     /\ frame[t].id = frame[u].id
     /\ Existing(frame[t].id)
     /\ InItsBucket(documents_by_id, documents_by_status, frame[t].id))
    => LET c == [by_id |-> documents_by_id, by_status |-> documents_by_status,
                 pc |-> pc, frame |-> frame]
       IN /\ \E sch \in Schedules : RaceOutcome(RunSchedule(c, sch), frame[t].id)
          /\ \A sch \in SequentialSchedules : ~RaceOutcome(RunSchedule(c, sch), frame[t].id)

\* A list of rows without the rows of the document with this integer id.
Others(rows, id) ==
  LET NotTarget(row) == ToInt(row["id"]) # id
  IN SelectSeq(rows, NotTarget)

\* C16: a PATCH touches one document.  Every other document keeps its
\* by_id entry (so its status), stays in its bucket and keeps its order
\* among the other untouched documents of the bucket; whatever the indexes
\* then hold for the target has the id and a pdf_path the file gives it.
C16_OnlyTargetTouched ==
  [][\A id \in RequestIds, S \in DocumentUpdate :
       update_document(id, S) =>
         /\ \A s \in DocumentStatus :
              Others(Bucket(documents_by_status', s), id)
                = Others(Bucket(documents_by_status, s), id)
         /\ \A k \in DOMAIN documents_by_id :
              ToInt(k) # id =>
                k \in DOMAIN documents_by_id' /\ documents_by_id'[k] = documents_by_id[k]
         /\ \A k \in DOMAIN documents_by_id' :
              ToInt(k) # id => k \in DOMAIN documents_by_id
         /\ LET FromFile(row) ==
                  \E i \in 1..Len(documents) :
                    /\ ToInt(documents[i]["id"]) = id
                    /\ documents[i]["pdf_path"] = row["pdf_path"]
            IN /\ \A k \in DOMAIN documents_by_id' :
                    ToInt(k) = id =>
                      ToInt(documents_by_id'[k]["id"]) = id /\ FromFile(documents_by_id'[k])
               /\ \A s \in DOMAIN documents_by_status' :
                    \A j \in 1..Len(documents_by_status'[s]) :
                      ToInt(documents_by_status'[s][j]["id"]) = id
                        => FromFile(documents_by_status'[s][j])]_vars

\* C16 witness: a PATCH with another status has been handled for a loaded
\* document while another document stands before it in its bucket.
C16_Witness ==
  /\ request.op = "PATCH"
  /\ UniqueIds
  /\ Existing(request.id)
  /\ request.status \in DocumentStatus
  /\ request.status # CurrentStatus(request.id)
  /\ PositionIn(documents_by_status[CurrentStatus(request.id)], request.id) >= 2

\* C17: by_path is never changed after load: no PATCH, whether it succeeds,
\* changes nothing or fails, changes the paths of by_path, the members or
\* the order of a by_path bucket, or the paths of the duplicates view.
C17_ByPathFrozen ==
  [][\A id \in RequestIds, S \in DocumentUpdate :
       update_document(id, S) =>
         /\ DOMAIN documents_by_pdf_path' = DOMAIN documents_by_pdf_path
         /\ \A p \in DOMAIN documents_by_pdf_path :
              documents_by_pdf_path'[p] = documents_by_pdf_path[p]
         /\ DOMAIN duplicates' = DOMAIN duplicates]_vars

\* C17 witness: a PATCH with another status has been handled for a loaded
\* document that shares its path with another one, while a third document
\* has a path of its own.
C17_Witness ==
  /\ request.op = "PATCH"
  /\ Existing(request.id)
  /\ request.status \in DocumentStatus
  /\ request.status # CurrentStatus(request.id)
  /\ documents[PositionIn(documents, request.id)]["pdf_path"] \in DOMAIN duplicates
  /\ \E p \in DOMAIN documents_by_pdf_path : Len(documents_by_pdf_path[p]) = 1

====
